---- MODULE Spec2Model ----
(***************************************************************************)
(* State-machine model of the town simulation core:                        *)
(*   - the citizens store  (src/src/stores/citizens.ts)                    *)
(*   - the town hall store (src/unnamed/part_000)                          *)
(*   - the resource ledger, the number map, the happiness store and the    *)
(*     level table, which the two stores import but which are not part of  *)
(*     the sources at hand; they are modelled from the written design.     *)
(*                                                                         *)
(* Units.  Fractional quantities of the program (0.4, 0.1, -0.9, ...) are  *)
(* kept as integers in tenths: stocks, capacities, revenues, per-citizen   *)
(* rates, the happiness impact and the interval multiplier.  Happiness is  *)
(* in whole points and times are in milliseconds.                          *)
(*                                                                         *)
(* Scheduling.  Vue runs the callbacks of watch / watchEffect in a flush   *)
(* that follows the handler which changed their sources and precedes the   *)
(* next timer callback or user event.  Every action below is therefore one *)
(* handler followed by that flush (operator Flush).                        *)
(***************************************************************************)
EXTENDS Integers, Sequences, FiniteSets, TLC

VARIABLES
    citizenCount,               \* citizens.ts  citizenCount
    jobs,                       \* citizens.ts  jobs
    level,                      \* town hall    level
    value,                      \* ledger       stock per resource (tenths)
    capacity,                   \* ledger       capacity contributions per resource
    revenue,                    \* ledger       revenue contributions per resource
    happiness,                  \* happiness store output (whole points)
    happinessImpact,            \* happiness store contributions (tenths)
    citizenIntervalMultiplier,  \* town hall    number map (tenths)
    passedIntervalMs,           \* town hall    passedIntervalMs
    citizenInterval,            \* town hall    handle of the last interval started
    timers,                     \* runtime      handles of the active intervals
    op,                         \* the last event and its arguments
    pre,                        \* the program state before the last event
    mid,                        \* the state its handler returned in, before the flush
    frame                       \* the demotion effect's loop: position, i, copied pairs

progVars == <<citizenCount, jobs, level, value, capacity, revenue, happiness,
              happinessImpact, citizenIntervalMultiplier, passedIntervalMs,
              citizenInterval, timers>>
vars == <<citizenCount, jobs, level, value, capacity, revenue, happiness,
          happinessImpact, citizenIntervalMultiplier, passedIntervalMs,
          citizenInterval, timers, op, pre, mid, frame>>

----------------------------------------------------------------------------
(* Numbers of the program                                                  *)

BASE_CITIZEN_INTERVAL == 60000
PollMs == 100
InitialCitizens == 5

----------------------------------------------------------------------------
(* Bounds of the model                                                     *)

\* the level table is explored up to this level (upgrade stops there)
MaxLevel == 2
\* largest value an external write gives citizens.count
MaxCitizens == 7
\* largest step handed to incrementJob
MaxBy == 2
\* largest count of one job when the demotion effect is followed pass by pass
MaxAssigned == 2

\* jobs and arguments handed to assignJob / incrementJob when the citizens
\* store is explored under external population changes
WorkedJobs == {"farmers", "miners", "builders"}
AssignCounts == {-1, 3, 100}
\* values an external write gives citizens.count
PopulationWrites == {0, 2, 4, MaxCitizens}
\* arguments handed to incrementJob
IncrementBys == {-1, MaxBy}
\* jobs and arguments handed to assignJob when the whole program is explored
TownJobs == {"farmers", "merchants"}
TownAssignCounts == {0, 100}
\* values an external write gives citizens.count while the timer is explored
TimerCounts == {InitialCitizens, InitialCitizens + 1}
\* happiness values the external aggregator is seen to produce
HappinessValues == {90, 188, 189, 191, 192}
\* contributions an external owner registers on the interval multiplier
MultiplierBoosts == {-5, 0}
\* happiness values under which the town is followed while it grows: the
\* one-second period of the start and a period of zero
GrowthHappiness == {188, 189}
\* citizen counts under which the demotion effect is followed pass by pass
DemotionCounts == -1 .. MaxAssigned + 1

----------------------------------------------------------------------------
(* Constants of the program                                                *)


jobKeys == <<"farmers", "merchants", "lumberjacks", "miners", "builders">>
JobSet == {jobKeys[i] : i \in 1..Len(jobKeys)}

jobResourceMap ==
    [farmers |-> "food", merchants |-> "gold", lumberjacks |-> "wood",
     miners |-> "iron", builders |-> "labour"]

resourceKeys == <<"food", "gold", "wood", "iron", "labour">>
ResourceSet == {resourceKeys[i] : i \in 1..Len(resourceKeys)}

----------------------------------------------------------------------------
(* Number map: named additive contributions and their live sum             *)

RECURSIVE SumOver(_, _)
SumOver(m, ids) ==
    IF ids = {} THEN 0
    ELSE LET id == CHOOSE x \in ids : TRUE
         IN  m[id] + SumOver(m, ids \ {id})

useNumberMap(base) == [i \in {"base"} |-> base]

NumberMapTotal(m) == SumOver(m, DOMAIN m)

NumberMapSet(m, id, v) ==
    [x \in (DOMAIN m) \cup {id} |-> IF x = id THEN v ELSE m[x]]

\* per-citizen rates (tenths)
jobIncrements ==
    [farmers |-> useNumberMap(20), merchants |-> useNumberMap(10),
     lumberjacks |-> useNumberMap(4), miners |-> useNumberMap(1),
     builders |-> useNumberMap(10)]
idleIncrements == useNumberMap(10)
foodConsumption == useNumberMap(-9)
populationPenalty == useNumberMap(-2)

----------------------------------------------------------------------------
(* Level table (external configuration): capacities and revenues in tenths *)

LevelConfig(l) ==
    [capacities |-> [food |-> 10 * l, gold |-> 10 * l, wood |-> 4 * l,
                     iron |-> l, labour |-> 10 * l],
     revenue    |-> [food |-> 0, gold |-> 10, wood |-> 4, iron |-> 1,
                     labour |-> 0],
     citizens   |-> InitialCitizens + l]

----------------------------------------------------------------------------
(* The program state as one record, so that a handler is a function from   *)
(* state to state and the flush can compare the state before and after.    *)

Cur ==
    [citizenCount |-> citizenCount, jobs |-> jobs, level |-> level,
     value |-> value, capacity |-> capacity, revenue |-> revenue,
     happiness |-> happiness, happinessImpact |-> happinessImpact,
     citizenIntervalMultiplier |-> citizenIntervalMultiplier,
     passedIntervalMs |-> passedIntervalMs,
     citizenInterval |-> citizenInterval, timers |-> timers]

Install(s) ==
    /\ citizenCount' = s.citizenCount
    /\ jobs' = s.jobs
    /\ level' = s.level
    /\ value' = s.value
    /\ capacity' = s.capacity
    /\ revenue' = s.revenue
    /\ happiness' = s.happiness
    /\ happinessImpact' = s.happinessImpact
    /\ citizenIntervalMultiplier' = s.citizenIntervalMultiplier
    /\ passedIntervalMs' = s.passedIntervalMs
    /\ citizenInterval' = s.citizenInterval
    /\ timers' = s.timers

StateIs(s) ==
    /\ citizenCount = s.citizenCount
    /\ jobs = s.jobs
    /\ level = s.level
    /\ value = s.value
    /\ capacity = s.capacity
    /\ revenue = s.revenue
    /\ happiness = s.happiness
    /\ happinessImpact = s.happinessImpact
    /\ citizenIntervalMultiplier = s.citizenIntervalMultiplier
    /\ passedIntervalMs = s.passedIntervalMs
    /\ citizenInterval = s.citizenInterval
    /\ timers = s.timers

Min(a, b) == IF a < b THEN a ELSE b
Max(a, b) == IF a > b THEN a ELSE b

----------------------------------------------------------------------------
(* Resource ledger                                                         *)

setCapacity(s, r, id, v) ==
    [s EXCEPT !.capacity[r] = NumberMapSet(@, id, v)]

setRevenue(s, r, id, v) ==
    [s EXCEPT !.revenue[r] = NumberMapSet(@, id, v)]

capacityTotal(s, r) == NumberMapTotal(s.capacity[r])
revenueTotal(s, r) == NumberMapTotal(s.revenue[r])

\* one resource's share of a tick: add the net rate, then clamp to [0, capacity]
tickResource(s, r) ==
    [s EXCEPT !.value[r] =
        Max(0, Min(s.value[r] + revenueTotal(s, r), capacityTotal(s, r)))]

RECURSIVE tickResources(_, _)
tickResources(s, i) ==
    IF i > Len(resourceKeys) THEN s
    ELSE tickResources(tickResource(s, resourceKeys[i]), i + 1)

----------------------------------------------------------------------------
(* Citizens store                                                          *)

RECURSIVE SumJobs(_, _)
SumJobs(js, i) ==
    IF i > Len(jobKeys) THEN 0 ELSE js[jobKeys[i]] + SumJobs(js, i + 1)

citizensWithJobs(s) == SumJobs(s.jobs, 1)

idle(s) ==
    LET idleCount == s.citizenCount - citizensWithJobs(s)
    IN  IF idleCount > 0 THEN idleCount ELSE 0

\* Object.entries(jobs): the pairs <<key, count>> in key order, copied
temporaryJobsArray(js) == [i \in 1..Len(jobKeys) |-> <<jobKeys[i], js[jobKeys[i]]>>]

\* the reduce over the copied pairs: first pair with the strictly largest count
RECURSIVE jobWithMaxCountFrom(_, _, _)
jobWithMaxCountFrom(temp, i, acc) ==
    IF i > Len(temp) THEN acc
    ELSE jobWithMaxCountFrom(temp, i + 1,
             IF temp[i][2] > acc.count
             THEN [key |-> temp[i][1], count |-> temp[i][2]]
             ELSE acc)

jobWithMaxCount(temp) == jobWithMaxCountFrom(temp, 1, [key |-> "", count |-> 0])

\* the loop condition, read on every pass
demotionContinues(js, count, i) == i < SumJobs(js, 1) - count

\* a pass that adds a citizen to the job instead of taking one away
demotionPassAdds(js, temp) ==
    [js EXCEPT ![jobWithMaxCount(temp).key] = @ + 1]

\* the decrement of one pass, on the job the copied pairs select
demotionPass(js, temp) ==
    [js EXCEPT ![jobWithMaxCount(temp).key] = @ - 1]

\* the for loop of the demotion effect; its bound is re-read on every pass
RECURSIVE demotionLoop(_, _, _, _)
demotionLoop(js, temp, count, i) ==
    IF demotionContinues(js, count, i)
    THEN IF jobWithMaxCount(temp).key = "" THEN js
         ELSE demotionLoop(demotionPass(js, temp), temp, count, i + 1)
    ELSE js

\* the condition under which the demotion effect enters its loop
demotionGuard(s) == idle(s) = 0 /\ citizensWithJobs(s) > s.citizenCount

\* body of the demotion watchEffect
demotion(s) ==
    IF demotionGuard(s)
    THEN [s EXCEPT !.jobs =
              demotionLoop(s.jobs, temporaryJobsArray(s.jobs), s.citizenCount, 0)]
    ELSE s

\* assignJob that forgets to bound the count by the idle citizens
assignJobUnbounded(s, jobName, count) ==
    [s EXCEPT !.jobs[jobName] = IF count < 0 THEN 0 ELSE count]

RECURSIVE assignJob(_, _, _)
assignJob(s, jobName, count) ==
    IF count < 0 THEN assignJob(s, jobName, 0)
    ELSE LET currentCount == s.jobs[jobName]
             maxCount == currentCount + idle(s)
         IN  [s EXCEPT !.jobs[jobName] = Min(count, maxCount)]

\* incrementJob that writes the sum itself instead of going through assignJob
incrementJobDirect(s, jobName, by) ==
    [s EXCEPT !.jobs[jobName] = IF @ + by < 0 THEN 0 ELSE @ + by]

incrementJob(s, jobName, by) == assignJob(s, jobName, s.jobs[jobName] + by)

DefaultBy == 1

\* a listener with the comparison turned round: fires on a positive stock
starvationListenerInverted(s) ==
    IF s.value["food"] > 0
    THEN [s EXCEPT !.citizenCount = @ - 1]
    ELSE s

\* a listener that also fires on an empty stock
starvationListenerAtZero(s) ==
    IF s.value["food"] <= 0
    THEN [s EXCEPT !.citizenCount = @ - 1]
    ELSE s

\* the tick listener of the citizens store
starvationListener(s) ==
    IF s.value["food"] < 0
    THEN [s EXCEPT !.citizenCount = @ - 1]
    ELSE s

\* watch([citizenCount, populationPenalty.total])
watchPopulationImpact(s) ==
    [s EXCEPT !.happinessImpact =
        NumberMapSet(@, "citizens.population",
                     s.citizenCount * NumberMapTotal(populationPenalty))]

\* watch([citizenCount, foodConsumption.total])
watchFoodConsumption(s) ==
    setRevenue(s, "food", "citizens",
               s.citizenCount * NumberMapTotal(foodConsumption))

\* an idle contribution that counts every citizen as idle
watchIdleCountsEveryone(s) ==
    setRevenue(s, "food", "citizens.idle",
               s.citizenCount * NumberMapTotal(idleIncrements))

\* watch([idle, idleIncrements.total])
watchIdle(s) ==
    setRevenue(s, "food", "citizens.idle", idle(s) * NumberMapTotal(idleIncrements))

jobRevenueKey ==
    [farmers |-> "citizens.farmers", merchants |-> "citizens.merchants",
     lumberjacks |-> "citizens.lumberjacks", miners |-> "citizens.miners",
     builders |-> "citizens.builders"]

\* watchEffect over jobResourceMap
RECURSIVE jobRevenueEffect(_, _)
jobRevenueEffect(s, i) ==
    IF i > Len(jobKeys) THEN s
    ELSE LET j == jobKeys[i]
         IN  jobRevenueEffect(
                 setRevenue(s, jobResourceMap[j], jobRevenueKey[j],
                            s.jobs[j] * NumberMapTotal(jobIncrements[j])),
                 i + 1)

----------------------------------------------------------------------------
(* Town hall store                                                         *)

\* a level watcher that adds the level's capacity to what it had set before
RECURSIVE watchLevelAccumulates(_, _)
watchLevelAccumulates(s, i) ==
    IF i > Len(resourceKeys) THEN s
    ELSE LET key == resourceKeys[i]
             levelConfig == LevelConfig(s.level)
             had == IF key \in DOMAIN s.capacity[key] THEN s.capacity[key][key] ELSE 0
         IN  watchLevelAccumulates(
                 setRevenue(setCapacity(s, key, key, had + levelConfig.capacities[key]),
                            key, "buildings.townHall", levelConfig.revenue[key]),
                 i + 1)

\* watch(level): the level's capacities and revenues, for every resource
RECURSIVE watchLevel(_, _)
watchLevel(s, i) ==
    IF i > Len(resourceKeys) THEN s
    ELSE LET key == resourceKeys[i]
             levelConfig == LevelConfig(s.level)
         IN  watchLevel(
                 setRevenue(setCapacity(s, key, key, levelConfig.capacities[key]),
                            key, "buildings.townHall", levelConfig.revenue[key]),
                 i + 1)

upgradeable(s) ==
    /\ s.value["food"] = capacityTotal(s, "food")
    /\ s.value["gold"] = capacityTotal(s, "gold")

\* upgrade without its guard
upgradeUnguarded(s) == [s EXCEPT !.value["gold"] = 0, !.level = @ + 1]

\* upgrade that spends the food instead of the gold
upgradeSpendsFood(s) ==
    IF ~upgradeable(s) THEN s
    ELSE [s EXCEPT !.value["food"] = 0, !.level = @ + 1]

\* upgrade that also raises the level, by less, when it is refused
upgradeAlwaysLevels(s) ==
    IF ~upgradeable(s) THEN [s EXCEPT !.level = @ + 1]
    ELSE [s EXCEPT !.value["gold"] = 0, !.level = @ + 1]

upgrade(s) ==
    IF ~upgradeable(s) THEN s
    ELSE [s EXCEPT !.value["gold"] = 0, !.level = @ + 1]

\* a remainder that is never negative
FloorRem(a, b) == a % b

\* the remainder operator of the language: the result has the sign of a
JsRem(a, b) == IF a >= 0 THEN a % b ELSE -((-a) % b)

citizenIntervalTime(s) ==
    LET v == (BASE_CITIZEN_INTERVAL * (190 - s.happiness)) \div 100
    IN  ((v - JsRem(v, 1000)) * NumberMapTotal(s.citizenIntervalMultiplier)) \div 10

citizensCanBeRecruited(s) == LevelConfig(s.level).citizens > s.citizenCount

\* a check against the period as it was when the first timer was started
checkRecruitmentTimeCaptured(s) ==
    IF s.passedIntervalMs <
           citizenIntervalTime([s EXCEPT !.happiness = 188,
                                         !.citizenIntervalMultiplier = useNumberMap(10)])
    THEN s
    ELSE [s EXCEPT !.citizenCount = @ + 1, !.passedIntervalMs = 0]

\* a check that still waits when the elapsed time equals the period
checkRecruitmentTimeLate(s) ==
    IF s.passedIntervalMs <= citizenIntervalTime(s) THEN s
    ELSE [s EXCEPT !.citizenCount = @ + 1, !.passedIntervalMs = 0]

checkRecruitmentTime(s) ==
    IF s.passedIntervalMs < citizenIntervalTime(s) THEN s
    ELSE [s EXCEPT !.citizenCount = @ + 1, !.passedIntervalMs = 0]

\* the callback handed to setInterval
intervalCallback(s) ==
    checkRecruitmentTime([s EXCEPT !.passedIntervalMs = @ + PollMs])

\* setInterval hands out a handle that no active interval uses
NewHandle(active) == CHOOSE h \in 1..(Cardinality(active) + 1) : h \notin active

\* the callback that stops the running timer only when it starts another
watchRecruitableKeepsTimer(s, newValue) ==
    IF newValue
    THEN LET cleared == [s EXCEPT !.timers = @ \ {s.citizenInterval},
                                  !.passedIntervalMs = 0]
             h == NewHandle(cleared.timers)
         IN  [cleared EXCEPT !.timers = @ \cup {h}, !.citizenInterval = h]
    ELSE [s EXCEPT !.passedIntervalMs = 0]

\* the callback that does not keep the handle of the timer it starts
watchRecruitableDropsHandle(s, newValue) ==
    LET cleared == [s EXCEPT !.timers = @ \ {s.citizenInterval},
                             !.passedIntervalMs = 0]
    IN  IF newValue
        THEN [cleared EXCEPT !.timers = @ \cup {NewHandle(cleared.timers)}]
        ELSE cleared

\* the callback without the reset of the elapsed time
watchRecruitableNoReset(s, newValue) ==
    LET cleared == [s EXCEPT !.timers = @ \ {s.citizenInterval}]
    IN  IF newValue
        THEN LET h == NewHandle(cleared.timers)
             IN  [cleared EXCEPT !.timers = @ \cup {h}, !.citizenInterval = h]
        ELSE cleared

\* watch(citizensCanBeRecruited) callback
watchRecruitable(s, newValue) ==
    LET cleared == [s EXCEPT !.timers = @ \ {s.citizenInterval},
                             !.passedIntervalMs = 0]
    IN  IF newValue
        THEN LET h == NewHandle(cleared.timers)
             IN  [cleared EXCEPT !.timers = @ \cup {h}, !.citizenInterval = h]
        ELSE cleared

----------------------------------------------------------------------------
(* The flush that follows a handler: each watcher whose sources differ     *)
(* between old (before the handler) and the current state runs once, in    *)
(* the order the watchers were created.  The demotion effect does not      *)
(* re-run for its own writes.                                              *)

Flush(old, s0) ==
    LET s1 == IF s0.jobs # old.jobs \/ s0.citizenCount # old.citizenCount
              THEN demotion(s0) ELSE s0
        s2 == IF s1.citizenCount # old.citizenCount
              THEN watchFoodConsumption(watchPopulationImpact(s1)) ELSE s1
        s3 == IF idle(s2) # idle(old) THEN watchIdle(s2) ELSE s2
        s4 == IF s3.jobs # old.jobs THEN jobRevenueEffect(s3, 1) ELSE s3
        s5 == IF s4.level # old.level THEN watchLevel(s4, 1) ELSE s4
        s6 == IF citizensCanBeRecruited(s5) # citizensCanBeRecruited(old)
              THEN watchRecruitable(s5, citizensCanBeRecruited(s5)) ELSE s5
    IN  s6

----------------------------------------------------------------------------
(* Construction of the stores: every immediate watcher has run once        *)

\* The stocks start empty and the seed entries of the ledger's maps are 0.
\* The happiness store is outside the two stores: its output starts at 188
\* (a period of one second) and is moved by SetHappiness only; what the
\* citizens store registers with it is kept in happinessImpact.
Blank ==
    [citizenCount |-> InitialCitizens,
     jobs |-> [j \in JobSet |-> 0],
     level |-> 1,
     value |-> [r \in ResourceSet |-> 0],
     capacity |-> [r \in ResourceSet |-> useNumberMap(0)],
     revenue |-> [r \in ResourceSet |-> useNumberMap(0)],
     happiness |-> 188,
     happinessImpact |-> useNumberMap(0),
     citizenIntervalMultiplier |-> useNumberMap(10),
     passedIntervalMs |-> 0,
     citizenInterval |-> 0,
     timers |-> {}]

Constructed ==
    LET c1 == watchFoodConsumption(watchPopulationImpact(Blank))
        c2 == jobRevenueEffect(watchIdle(c1), 1)
        c3 == watchLevel(c2, 1)
    IN  watchRecruitable(c3, citizensCanBeRecruited(c3))

Event(name, job, arg) == [name |-> name, job |-> job, arg |-> arg]

\* the demotion effect is not running
NoFrame == [pc |-> "idle", i |-> 0, temp |-> <<>>]

Init ==
    /\ StateIs(Constructed)
    /\ op = Event("init", "", 0)
    /\ pre = Constructed
    /\ mid = Constructed
    /\ frame = NoFrame

----------------------------------------------------------------------------
(* Events.  Each is one handler of the program followed by the flush.      *)

Step(name, job, arg, s) ==
    /\ Install(Flush(Cur, s))
    /\ op' = Event(name, job, arg)
    /\ pre' = Cur
    /\ mid' = s
    /\ frame' = frame

\* citizens.assignJob(jobName, count)
AssignJob(j, c) == Step("assignJob", j, c, assignJob(Cur, j, c))

\* citizens.incrementJob(jobName, by)
IncrementJob(j, by) == Step("incrementJob", j, by, incrementJob(Cur, j, by))

\* citizens.incrementJob(jobName)
IncrementJobDefault(j) ==
    Step("incrementJobDefault", j, DefaultBy, incrementJob(Cur, j, DefaultBy))

\* a write to citizens.count from outside the two stores
SetCount(n) == Step("setCount", "", n, [Cur EXCEPT !.citizenCount = n])

\* one tick of the ledger: every resource in order, then the tick listeners
Tick == Step("tick", "", 0, starvationListener(tickResources(Cur, 1)))

\* the interval with handle h fires
Poll(h) ==
    /\ h \in timers
    /\ Step("poll", "", h, intervalCallback(Cur))

\* townHall.upgrade(); the level table is explored up to MaxLevel
Upgrade ==
    /\ upgradeable(Cur) => level < MaxLevel
    /\ Step("upgrade", "", 0, upgrade(Cur))

\* the happiness aggregator produces a new value
SetHappiness(h) == Step("setHappiness", "", h, [Cur EXCEPT !.happiness = h])

\* an external owner registers its contribution on the interval multiplier
SetMultiplier(b) ==
    Step("setMultiplier", "", b,
         [Cur EXCEPT !.citizenIntervalMultiplier = NumberMapSet(@, "boost", b)])

----------------------------------------------------------------------------
(* Specifications                                                          *)

\* the whole program: ledger ticks, recruitment polls, upgrades, assignments
Next ==
    \/ Tick
    \/ \E h \in timers : Poll(h)
    \/ Upgrade
    \/ \E j \in TownJobs, c \in TownAssignCounts : AssignJob(j, c)

Spec == Init /\ [][Next]_vars

\* the citizens store under assignments and external population changes
NextCitizens ==
    \/ \E j \in WorkedJobs, c \in AssignCounts : AssignJob(j, c)
    \/ \E j \in WorkedJobs, by \in IncrementBys : IncrementJob(j, by)
    \/ \E j \in WorkedJobs : IncrementJobDefault(j)
    \/ \E n \in PopulationWrites : SetCount(n)

SpecCitizens == Init /\ [][NextCitizens]_vars

\* the recruitment timer under changing happiness and multiplier
NextTimer ==
    \/ \E h \in timers : Poll(h)
    \/ \E h \in HappinessValues : SetHappiness(h)
    \/ \E b \in MultiplierBoosts : SetMultiplier(b)
    \/ \E n \in TimerCounts : SetCount(n)

SpecTimer == Init /\ [][NextTimer]_vars

\* the growing town: ticks, polls and upgrades while happiness moves the
\* period between one second and zero
NextGrowth ==
    \/ Tick
    \/ \E h \in timers : Poll(h)
    \/ Upgrade
    \/ \E h \in GrowthHappiness : SetHappiness(h)

SpecGrowth == Init /\ [][NextGrowth]_vars

----------------------------------------------------------------------------
(* The demotion effect, one pass of its loop per step.  It starts in a     *)
(* state a handler or an external write has just left: any assignment map  *)
(* and any citizen count; pre keeps that state while the effect runs.      *)

InitDemotion ==
    \E js \in [JobSet -> 0 .. MaxAssigned], n \in DemotionCounts :
        LET s == [Constructed EXCEPT !.jobs = js, !.citizenCount = n]
        IN  /\ StateIs(s)
            /\ op = Event("write", "", n)
            /\ pre = s
            /\ mid = s
            /\ frame = NoFrame

\* the effect runs: its condition, and the copy of the pairs if it holds
DemotionEnter ==
    /\ frame.pc = "idle"
    /\ frame' = IF demotionGuard(Cur)
                THEN [pc |-> "loop", i |-> 0, temp |-> temporaryJobsArray(jobs)]
                ELSE [frame EXCEPT !.pc = "done"]
    /\ op' = Event("demotion.enter", "", 0)
    /\ UNCHANGED <<progVars, pre, mid>>

\* one pass that finds a job and decrements it
DemotionPass ==
    /\ frame.pc = "loop"
    /\ demotionContinues(jobs, citizenCount, frame.i)
    /\ jobWithMaxCount(frame.temp).key # ""
    /\ jobs' = demotionPass(jobs, frame.temp)
    /\ frame' = [frame EXCEPT !.i = @ + 1]
    /\ op' = Event("demotion.pass", jobWithMaxCount(frame.temp).key, frame.i)
    /\ UNCHANGED <<citizenCount, level, value, capacity, revenue, happiness,
                   happinessImpact, citizenIntervalMultiplier, passedIntervalMs,
                   citizenInterval, timers, pre, mid>>

\* a pass that finds no job with a positive count: break
DemotionBreak ==
    /\ frame.pc = "loop"
    /\ demotionContinues(jobs, citizenCount, frame.i)
    /\ jobWithMaxCount(frame.temp).key = ""
    /\ frame' = [frame EXCEPT !.pc = "done"]
    /\ op' = Event("demotion.break", "", frame.i)
    /\ UNCHANGED <<progVars, pre, mid>>

\* the loop condition fails: the loop is left
DemotionExit ==
    /\ frame.pc = "loop"
    /\ ~demotionContinues(jobs, citizenCount, frame.i)
    /\ frame' = [frame EXCEPT !.pc = "done"]
    /\ op' = Event("demotion.exit", "", frame.i)
    /\ UNCHANGED <<progVars, pre, mid>>

NextDemotion ==
    \/ DemotionEnter
    \/ DemotionPass
    \/ DemotionBreak
    \/ DemotionExit

\* a loop of the program runs to its end once entered: weak fairness
SpecDemotion == InitDemotion /\ [][NextDemotion]_vars /\ WF_vars(NextDemotion)

----------------------------------------------------------------------------
(* Properties of the citizens store                                        *)

\* sum of the assigned counts, written out job by job
TotalAssigned(js) ==
    js["farmers"] + js["merchants"] + js["lumberjacks"] + js["miners"] + js["builders"]

IdleOf(s) ==
    IF s.citizenCount - TotalAssigned(s.jobs) > 0
    THEN s.citizenCount - TotalAssigned(s.jobs) ELSE 0

Clamp(lo, x, hi) == IF x < lo THEN (IF lo < hi THEN lo ELSE hi)
                    ELSE IF x > hi THEN hi ELSE x

NoExcess(s) == TotalAssigned(s.jobs) <= s.citizenCount

\* C1: assignJob(j, c) leaves assigned(j) = min(max(c, 0), assignedBefore(j) +
\* idleBefore) and leaves every other job and the citizen count as they were;
\* when no excess assignment was pending, the flush that follows changes
\* neither.
C1_AssignJobClamps ==
    op.name = "assignJob" =>
        /\ mid.jobs[op.job] = Clamp(0, op.arg, pre.jobs[op.job] + IdleOf(pre))
        /\ \A k \in JobSet \ {op.job} : mid.jobs[k] = pre.jobs[k]
        /\ mid.citizenCount = pre.citizenCount
        /\ NoExcess(pre) => (jobs = mid.jobs /\ citizenCount = pre.citizenCount)

\* C1 witness: assignJob('farmers', 100) with two idle citizens and no farmer
C1_Witness ==
    /\ op = Event("assignJob", "farmers", 100)
    /\ pre.jobs["farmers"] = 0
    /\ IdleOf(pre) = 2
    /\ jobs["farmers"] = 2

\* C9: from a state without excess, assignJob and incrementJob keep the sum of
\* the assigned counts within the citizen count, a job grows by no more than
\* the idle citizens there were, and incrementJob(j, by) ends where
\* assignJob(j, assigned(j) + by) ends, by being 1 when it is left out.
C9_AssignmentsStayWithinPopulation ==
    (op.name \in {"assignJob", "incrementJob", "incrementJobDefault"} /\ NoExcess(pre)) =>
        /\ NoExcess(mid)
        /\ NoExcess(Cur)
        /\ jobs[op.job] - pre.jobs[op.job] <= IdleOf(pre)
        /\ op.name = "incrementJob" =>
               jobs[op.job] =
                   Clamp(0, pre.jobs[op.job] + op.arg, pre.jobs[op.job] + IdleOf(pre))
        /\ op.name = "incrementJobDefault" =>
               jobs[op.job] =
                   Clamp(0, pre.jobs[op.job] + 1, pre.jobs[op.job] + IdleOf(pre))

\* C9 witness: an increment by more than the single idle citizen is cut to one
C9_Witness ==
    /\ op = Event("incrementJob", "miners", MaxBy)
    /\ NoExcess(pre)
    /\ IdleOf(pre) = 1
    /\ jobs["miners"] = pre.jobs["miners"] + 1
    /\ TotalAssigned(jobs) = citizenCount

\* a population decrease that leaves more citizens assigned than there are
PopulationDropped ==
    /\ op.name = "setCount"
    /\ citizenCount < pre.citizenCount
    /\ NoExcess(pre)
    /\ \A k \in JobSet : pre.jobs[k] >= 0
    /\ TotalAssigned(pre.jobs) > citizenCount

\* C2: after the citizen count dropped to T below the assigned sum and the
\* demotion has run, the assigned sum is at most T.
C2_DemotionConverges ==
    PopulationDropped => TotalAssigned(jobs) <= citizenCount

\* the demotion as designed: one decrement at a time, each on the first job
\* (in key order) whose count is largest at that moment
FirstLargest(js) ==
    CHOOSE i \in 1..Len(jobKeys) :
        /\ \A k \in 1..Len(jobKeys) : js[jobKeys[k]] <= js[jobKeys[i]]
        /\ \A k \in 1..(i - 1) : js[jobKeys[k]] < js[jobKeys[i]]

RECURSIVE DemotedBy(_, _)
DemotedBy(js, n) ==
    IF n = 0 THEN js
    ELSE DemotedBy([js EXCEPT ![jobKeys[FirstLargest(js)]] = @ - 1], n - 1)

\* C3: the demotion performs min(excess, assigned sum) decrements, each on the
\* first job in key order whose count is largest at the moment of the decrement.
C3_DemotionSelectsLargest ==
    PopulationDropped =>
        jobs = DemotedBy(pre.jobs,
                         Clamp(0, TotalAssigned(pre.jobs) - citizenCount,
                               TotalAssigned(pre.jobs)))

----------------------------------------------------------------------------
(* Properties of the town hall store                                       *)

AtCapacity(s, r) == s.value[r] = NumberMapTotal(s.capacity[r])

Upgradeable(s) == AtCapacity(s, "food") /\ AtCapacity(s, "gold")

\* C4: upgrade() called while food or gold is not exactly at capacity changes
\* nothing: level, stocks, contributions, citizens and the timer stay as they were.
C4_RefusedUpgradeChangesNothing ==
    (op.name = "upgrade" /\ ~Upgradeable(pre)) => (mid = pre /\ Cur = pre)

\* C4 witness: upgrade() called with the food at capacity and the gold below it
C4_Witness ==
    /\ op.name = "upgrade"
    /\ AtCapacity(pre, "food")
    /\ ~AtCapacity(pre, "gold")
    /\ pre.value["gold"] > 0
    /\ Cur = pre

\* C5: upgrade() called while upgradeable empties the gold stock, raises the
\* level by one and leaves the other stocks, the citizen count and the job
\* assignments as they were.
C5_UpgradeSpendsGoldAndLevelsUp ==
    (op.name = "upgrade" /\ Upgradeable(pre)) =>
        /\ value["gold"] = 0
        /\ level = pre.level + 1
        /\ \A r \in ResourceSet \ {"gold"} : value[r] = pre.value[r]
        /\ citizenCount = pre.citizenCount
        /\ jobs = pre.jobs

\* C5 witness: a granted upgrade that had gold to spend and farmers at work
C5_Witness ==
    /\ op.name = "upgrade"
    /\ Upgradeable(pre)
    /\ pre.value["gold"] > 0
    /\ pre.jobs["farmers"] > 0
    /\ level = pre.level + 1

\* C10: the level is at least 1 and never decreases; it changes only by a
\* granted upgrade(), and then by exactly one.
C10_LevelOnlyRisesByUpgrade ==
    /\ level >= 1
    /\ level >= pre.level
    /\ level # pre.level =>
           (op.name = "upgrade" /\ Upgradeable(pre) /\ level = pre.level + 1)
    /\ op.name \in {"tick", "poll", "assignJob"} => level = pre.level

\* C10 witness: after the level has risen to 2 a poll recruits a citizen and
\* the level stays 2
C10_Witness ==
    /\ op.name = "poll"
    /\ citizenCount = pre.citizenCount + 1
    /\ pre.level = 2
    /\ level = 2

----------------------------------------------------------------------------
(* Properties of the recruitment timer                                     *)

Eligible(s) == LevelConfig(s.level).citizens > s.citizenCount

\* C6: a poll adds 100 to the elapsed time; if the sum reaches the period a
\* citizen is recruited and the elapsed time restarts at 0, otherwise nobody is
\* recruited; the elapsed time is thus 100 times the polls since it was 0, and
\* at happiness 90 with multiplier 1 the period is 60000.
C6_RecruitsAtFirstPollReachingPeriod ==
    /\ passedIntervalMs >= 0
    /\ passedIntervalMs % 100 = 0
    /\ op.name = "poll" =>
           LET elapsed == pre.passedIntervalMs + 100
               period == citizenIntervalTime(pre)
           IN  IF elapsed >= period
               THEN citizenCount = pre.citizenCount + 1 /\ passedIntervalMs = 0
               ELSE citizenCount = pre.citizenCount /\ passedIntervalMs = elapsed
    /\ (happiness = 90 /\ NumberMapTotal(citizenIntervalMultiplier) = 10) =>
           (citizenIntervalTime(Cur) = 60000 /\ passedIntervalMs < 60000)

\* C6 witness: the 600th poll at happiness 90 and multiplier 1 recruits
C6_Witness ==
    /\ op.name = "poll"
    /\ pre.happiness = 90
    /\ NumberMapTotal(pre.citizenIntervalMultiplier) = 10
    /\ pre.passedIntervalMs = 59900
    /\ citizenCount = pre.citizenCount + 1
    /\ passedIntervalMs = 0

\* C7: whenever the eligibility differs from what it was, the elapsed time is 0
\* and the timer that ran is stopped; while not eligible no timer runs and the
\* elapsed time stays 0; once eligible exactly the newly started timer runs.
C7_EligibilityChangeResetsTimer ==
    /\ Eligible(Cur) # Eligible(pre) => passedIntervalMs = 0
    /\ ~Eligible(Cur) => (passedIntervalMs = 0 /\ timers = {})
    /\ Eligible(Cur) => timers = {citizenInterval}
    /\ (op.name = "poll" /\ Eligible(Cur)) => Eligible(pre)

\* C7 witness: eligibility is lost in the middle of a period
C7_Witness ==
    /\ Eligible(pre)
    /\ ~Eligible(Cur)
    /\ pre.passedIntervalMs > 0
    /\ op.name = "setCount"
    /\ passedIntervalMs = 0
    /\ timers = {}

\* C7 witness of the way back: eligibility returns and a timer starts from 0
C7_WitnessRestart ==
    /\ ~Eligible(pre)
    /\ Eligible(Cur)
    /\ pre.timers = {}
    /\ passedIntervalMs = 0
    /\ timers = {citizenInterval}

PeriodArgument(s) == 600 * (190 - s.happiness)

----------------------------------------------------------------------------
(* Properties of the contributions the two stores register                 *)

Contribution(m, id) == IF id \in DOMAIN m THEN m[id] ELSE 0

\* C11: for every resource the town hall's capacity contribution is the level
\* table's capacity of the current level and its revenue contribution
\* 'buildings.townHall' is the table's revenue of the current level; being the
\* only capacity contribution besides the empty seed, it is the capacity itself,
\* so an earlier level's value is replaced, not added to.
C11_TownHallContributionsFollowLevel ==
    \A r \in ResourceSet :
        /\ r \in DOMAIN capacity[r]
        /\ capacity[r][r] = LevelConfig(level).capacities[r]
        /\ "buildings.townHall" \in DOMAIN revenue[r]
        /\ revenue[r]["buildings.townHall"] = LevelConfig(level).revenue[r]
        /\ NumberMapTotal(capacity[r]) = LevelConfig(level).capacities[r]

\* C11 witness: an upgrade from level 1 has replaced the food capacity 10 by 20
C11_Witness ==
    /\ op.name = "upgrade"
    /\ pre.level = 1
    /\ level = 2
    /\ pre.capacity["food"]["food"] = 10
    /\ capacity["food"]["food"] = 20

\* C12: the citizens store's revenue contributions match the state: for every
\* job 'citizens.<job>' on the job's resource is assigned(job) times the job's
\* rate, 'citizens.idle' on food is idle times the idle rate, 'citizens' on
\* food is the citizen count times the consumption rate; each is one entry.
C12_CitizenRevenuesMatchState ==
    /\ \A j \in JobSet :
           Contribution(revenue[jobResourceMap[j]], jobRevenueKey[j]) =
               jobs[j] * NumberMapTotal(jobIncrements[j])
    /\ Contribution(revenue["food"], "citizens.idle") =
           IdleOf(Cur) * NumberMapTotal(idleIncrements)
    /\ Contribution(revenue["food"], "citizens") =
           citizenCount * NumberMapTotal(foodConsumption)
    /\ NumberMapTotal(revenue["food"]) =
           jobs["farmers"] * NumberMapTotal(jobIncrements["farmers"])
           + IdleOf(Cur) * NumberMapTotal(idleIncrements)
           + citizenCount * NumberMapTotal(foodConsumption)
           + Contribution(revenue["food"], "buildings.townHall")

\* C12 witness: a population drop has demoted farmers and left some at work
C12_Witness ==
    /\ op.name = "setCount"
    /\ jobs["farmers"] < pre.jobs["farmers"]
    /\ jobs["farmers"] > 0
    /\ citizenCount > 0
    /\ revenue["food"]["citizens.farmers"] =
           jobs["farmers"] * NumberMapTotal(jobIncrements["farmers"])

----------------------------------------------------------------------------
(* Termination of the demotion effect                                      *)

\* the excess the effect starts with
StartExcess == TotalAssigned(pre.jobs) - pre.citizenCount

\* C14: from every assignment map and every citizen count, zero and negative
\* counts and the all-zero map included, the demotion effect reaches its end:
\* it makes one decrement per pass, never more passes than the excess it
\* started with, and it ends in the assignment map the effect computes.
C14_DemotionTerminates ==
    /\ [](/\ frame.i <= Max(0, StartExcess)
          /\ TotalAssigned(pre.jobs) - TotalAssigned(jobs) = frame.i
          /\ frame.pc = "done" => jobs = demotion(pre).jobs)
    /\ <>(frame.pc = "done")

\* C14 witness: with a negative citizen count the loop has taken every job to
\* zero or below and has stopped
C14_Witness ==
    /\ frame.pc = "done"
    /\ frame.i > 0
    /\ pre.citizenCount < 0
    /\ \A j \in JobSet : jobs[j] <= 0

----------------------------------------------------------------------------
(* Further properties of the recruitment timer and of the populations      *)

\* C15: the period the recruitment check uses is at least one poll interval,
\* whatever the happiness and the multiplier total are.
C15_PeriodHasPositiveFloor == citizenIntervalTime(Cur) >= PollMs

\* C16: every job's assigned count is at least 0 in every state, whatever
\* assignments, population decreases and demotions came before.
C16_AssignedCountsNonNegative == \A j \in JobSet : jobs[j] >= 0

C18_PollUsesCurrentPeriod ==
    /\ op.name \in {"setHappiness", "setMultiplier"} =>
           /\ citizenCount = pre.citizenCount
           /\ passedIntervalMs = pre.passedIntervalMs
           /\ timers = pre.timers
    /\ op.name = "poll" =>
           LET period == citizenIntervalTime(pre)
           IN  /\ pre.passedIntervalMs >= period =>
                      citizenCount = pre.citizenCount + 1
               /\ pre.passedIntervalMs + PollMs < period =>
                      /\ citizenCount = pre.citizenCount
                      /\ passedIntervalMs = pre.passedIntervalMs + PollMs

\* C18 witness: the period was brought below time already elapsed, and the
\* poll that follows recruits
C18_Witness ==
    /\ op.name = "poll"
    /\ pre.passedIntervalMs > 0
    /\ pre.passedIntervalMs >= citizenIntervalTime(pre)
    /\ citizenCount = pre.citizenCount + 1

\* the period has grown beyond the one second of the start: a poll past that
\* second recruits nobody
C18_WitnessPostponed ==
    /\ op.name = "poll"
    /\ pre.passedIntervalMs >= citizenIntervalTime(Constructed)
    /\ citizenIntervalTime(pre) > pre.passedIntervalMs + PollMs
    /\ citizenCount = pre.citizenCount

\* C19: the timer recruits only while the town hall is eligible: a poll
\* happens only in a state whose citizen count is below the threshold of its
\* level, a recruiting poll adds exactly one citizen, nothing else adds any,
\* and so the count never exceeds the threshold of the current level, also
\* when the period is zero and every poll recruits.
C19_RecruitsOnlyWhileEligible ==
    /\ op.name = "poll" => Eligible(pre)
    /\ citizenCount > pre.citizenCount =>
           /\ op.name = "poll"
           /\ citizenCount = pre.citizenCount + 1
           /\ pre.citizenCount < LevelConfig(pre.level).citizens
    /\ citizenCount <= LevelConfig(level).citizens

\* C19 witness: at period zero a poll right after a restart of the elapsed
\* time recruits the last citizen the level allows, and the timer stops
C19_Witness ==
    /\ op.name = "poll"
    /\ citizenIntervalTime(pre) <= 0
    /\ pre.passedIntervalMs = 0
    /\ pre.level = MaxLevel
    /\ pre.citizenCount = LevelConfig(MaxLevel).citizens - 1
    /\ citizenCount = LevelConfig(MaxLevel).citizens
    /\ timers = {}

\* C20: at most one recruitment timer is active, and one is active exactly
\* when the town hall is eligible; a timer that starts finds no other timer
\* still running; a poll is the step of that one timer and advances the
\* elapsed time by no more than 100.
C20_AtMostOneTimer ==
    /\ Cardinality(timers) <= 1
    /\ timers # {} <=> Eligible(Cur)
    /\ timers # pre.timers => (timers = {} \/ pre.timers = {})
    /\ op.name = "poll" =>
           /\ pre.timers = {op.arg}
           /\ passedIntervalMs <= pre.passedIntervalMs + PollMs

\* C20 witness: an upgrade makes a full town hall eligible again and one timer
\* is started where none was running
C20_Witness ==
    /\ op.name = "upgrade"
    /\ ~Eligible(pre)
    /\ pre.timers = {}
    /\ Eligible(Cur)
    /\ Cardinality(timers) = 1
    /\ passedIntervalMs = 0

====
